---------------------------- MODULE Spec2Model ----------------------------
(***************************************************************************)
(* Model of src/main.ts: the bootstrap sequence of the server (middleware  *)
(* chain, collaborator initialisation, transport selection with the HTTPS  *)
(* -> HTTP fallback, port resolution, listen, SIGTERM shutdown) and the    *)
(* request pipeline the middleware chain implements (CORS, /healthz, the   *)
(* error middleware with its webhook dispatch, the 404 handler).           *)
(*                                                                         *)
(* One action is one run-to-completion segment of the single JavaScript    *)
(* thread, or one statement of the long synchronous tail of bootstrap();   *)
(* while bootstrap() is inside a synchronous segment no event-loop         *)
(* callback (signal handler, timer, close callback) can run.               *)
(***************************************************************************)
EXTENDS Integers, Sequences, FiniteSets, TLC

VARIABLES
    pc,              \* position of bootstrap()
    env,             \* process.env.PORT
    httpServer,      \* configService.get('SERVER'): [TYPE, PORT], mutated in place
    providerEnabled, \* configService.get('PROVIDER').ENABLED
    servers,         \* every listener object created by ServerUP, by identity
    server,          \* the local `server` of bootstrap(): a reference
    emInit,          \* what eventManager?.init?.(server) did
    log,             \* what the logger was given, in order
    sigtermHandlers, \* number of 'SIGTERM' listeners registered on process
    sigterms,        \* number of times the SIGTERM handler has run
    closeCbs,        \* close callbacks waiting for the listener's 'close' event
    timers,          \* remaining seconds of each armed fallback timer
    elapsed,         \* seconds since the SIGTERM handler first ran
    proc,            \* the process: [alive, exitCode, via]
    waLoaded,        \* waMonitor.loadInstance() was called
    unexpectedHook,  \* onUnexpectedError() was called
    hist,            \* history: the configuration as loaded, whether the
                     \* certificate load failed, the statement that rejected,
                     \* the collaborator inits called and settled, in order
    cors,            \* configService.get('CORS'): [ORIGIN]
    reqs             \* the requests in the middleware chain

lifeVars == <<pc, env, httpServer, providerEnabled, servers, server, emInit, log,
              sigtermHandlers, sigterms, closeCbs, timers, elapsed, proc,
              waLoaded, unexpectedHook, hist>>
vars == <<pc, env, httpServer, providerEnabled, servers, server, emInit, log,
          sigtermHandlers, sigterms, closeCbs, timers, elapsed, proc,
          waLoaded, unexpectedHook, hist, cors, reqs>>

----------------------------------------------------------------------------
(* Bounds of the model *)

\* SIGTERMs the handler is run for in one behaviour
MaxSigterm == 2
\* requests followed through the middleware chain in one behaviour
MaxReq == 2

(* Program constants *)

\* setTimeout(..., 10_000): the fallback timer, in seconds
ShutdownTimeout == 10
\* the hard default of the port resolution
DefaultPort == 8080
\* HttpStatus.NOT_FOUND
NOT_FOUND == 404
\* the fallback status of the error envelope
InternalServerError == 500

----------------------------------------------------------------------------
(* JavaScript values *)

Undefined == [kind |-> "undefined"]
Null == [kind |-> "null"]
NaN == [kind |-> "NaN"]
Num(n) == [kind |-> "number", n |-> n]
\* a string, as the sequence of its pieces (characters, or words)
Str(chars) == [kind |-> "string", chars |-> chars]

Range(s) == {s[i] : i \in 1..Len(s)}

Digits == {"0", "1", "2", "3", "4", "5", "6", "7", "8", "9"}
DigitVal(c) ==
    CASE c = "0" -> 0 [] c = "1" -> 1 [] c = "2" -> 2 [] c = "3" -> 3
      [] c = "4" -> 4 [] c = "5" -> 5 [] c = "6" -> 6 [] c = "7" -> 7
      [] c = "8" -> 8 [] c = "9" -> 9

RECURSIVE Decimal(_)
Decimal(chars) ==
    IF chars = <<>> THEN 0
    ELSE 10 * Decimal(SubSeq(chars, 1, Len(chars) - 1)) + DigitVal(chars[Len(chars)])

\* Number(v): a number is itself, undefined is NaN, null is 0, the empty
\* string is 0, a string of decimal digits is its value, any other string NaN
Number(v) ==
    CASE v.kind = "number" -> v
      [] v.kind = "NaN" -> NaN
      [] v.kind = "undefined" -> NaN
      [] v.kind = "null" -> Num(0)
      [] v.kind = "string" ->
            IF v.chars = <<>> THEN Num(0)
            ELSE IF Range(v.chars) \subseteq Digits THEN Num(Decimal(v.chars))
            ELSE NaN

\* a ?? b
Nullish(a, b) == IF a.kind \in {"undefined", "null"} THEN b ELSE a

\* the values that count as false: undefined, null, NaN, 0, ''
Falsy(v) ==
    \/ v.kind \in {"undefined", "null", "NaN"}
    \/ v = Num(0)
    \/ v = Str(<<>>)

\* a || b
Or(a, b) == IF Falsy(a) THEN b ELSE a

\* String.prototype.toUpperCase on the transport kinds
ToUpperCase(s) ==
    CASE s = "http" -> "HTTP" [] s = "https" -> "HTTPS" [] s = "ws" -> "WS"

----------------------------------------------------------------------------
(* References to listener objects: the index in `servers`, or a sentinel *)

NullRef == 0
UndefinedRef == -1
IsObject(ref) == ref \in 1..Len(servers)

\* http.Server#listen rejects a port that is not an integer in 0..65535
ValidPort(p) == p.kind = "number" /\ p.n \in 0..65535

Alive == proc.alive

\* bootstrap() is suspended at an await, has returned, or has rejected
AtEventLoop == pc \in {"awaitProvider", "awaitPrisma", "done", "aborted"}

Logged(entry) == log' = Append(log, entry)

Exit(code, via) == proc' = [alive |-> FALSE, exitCode |-> code, via |-> via]

\* bootstrap() rejects at the statement `at`: nothing after it runs
Abort(at) ==
    /\ pc' = "aborted"
    /\ hist' = [hist EXCEPT !.abortAt = at]

----------------------------------------------------------------------------
(* bootstrap(), lines 25-173 *)

\* the SIGTERM handler registered first thing in bootstrap()
Configure_registerEarly ==
    /\ pc = "idle" /\ Alive
    /\ pc' = IF providerEnabled THEN "awaitProvider" ELSE "awaitPrisma"
    /\ hist' = [hist EXCEPT !.inits =
          <<IF providerEnabled THEN "provider:start" ELSE "prisma:start">>]
    /\ sigtermHandlers' = sigtermHandlers + 1
    /\ UNCHANGED <<env, httpServer, providerEnabled, servers, server, emInit, log,
                   sigterms, closeCbs, timers, elapsed, proc,
                   waLoaded, unexpectedHook, cors, reqs>>

\* the unexpected-error handler installed first thing in bootstrap()
Configure_hookFirst ==
    /\ pc = "idle" /\ Alive
    /\ pc' = IF providerEnabled THEN "awaitProvider" ELSE "awaitPrisma"
    /\ hist' = [hist EXCEPT !.inits =
          <<IF providerEnabled THEN "provider:start" ELSE "prisma:start">>]
    /\ unexpectedHook' = TRUE
    /\ UNCHANGED <<env, httpServer, providerEnabled, servers, server, emInit, log,
                   sigtermHandlers, sigterms, closeCbs, timers, elapsed, proc,
                   waLoaded, cors, reqs>>

\* lines 26-118 / 123-124: the middleware chain is mounted, then the first
\* collaborator init is called and bootstrap() suspends on it
Configure ==
    /\ pc = "idle" /\ Alive
    /\ pc' = IF providerEnabled THEN "awaitProvider" ELSE "awaitPrisma"
    /\ hist' = [hist EXCEPT !.inits =
          <<IF providerEnabled THEN "provider:start" ELSE "prisma:start">>]
    /\ UNCHANGED <<env, httpServer, providerEnabled, servers, server, emInit, log,
                   sigtermHandlers, sigterms, closeCbs, timers, elapsed, proc,
                   waLoaded, unexpectedHook, cors, reqs>>

\* a rejection of the provider init swallowed: start-up goes on to Prisma
ProviderInit_swallow(ok) ==
    /\ pc = "awaitProvider" /\ Alive
    /\ pc' = "awaitPrisma"
    /\ IF ok
         THEN /\ Logged([level |-> "info", msg |-> <<"Provider:Files", "-", "ON">>])
              /\ hist' = [hist EXCEPT !.inits = @ \o <<"provider:ok", "prisma:start">>]
         ELSE /\ hist' = [hist EXCEPT !.inits = @ \o <<"provider:fail", "prisma:start">>]
              /\ UNCHANGED log
    /\ UNCHANGED <<env, httpServer, providerEnabled, servers, server, emInit,
                   sigtermHandlers, sigterms, closeCbs, timers, elapsed, proc,
                   waLoaded, unexpectedHook, cors, reqs>>

\* lines 118-124: providerFiles.onModuleInit() settles; when it resolves,
\* the Prisma init is called and bootstrap() suspends on it
ProviderInit(ok) ==
    /\ pc = "awaitProvider" /\ Alive
    /\ IF ok
         THEN /\ Logged([level |-> "info", msg |-> <<"Provider:Files", "-", "ON">>])
              /\ pc' = "awaitPrisma"
              /\ hist' = [hist EXCEPT !.inits = @ \o <<"provider:ok", "prisma:start">>]
         ELSE /\ pc' = "aborted"
              /\ hist' = [hist EXCEPT !.abortAt = "awaitProvider",
                                      !.inits = Append(@, "provider:fail")]
              /\ UNCHANGED log
    /\ UNCHANGED <<env, httpServer, providerEnabled, servers, server, emInit,
                   sigtermHandlers, sigterms, closeCbs, timers, elapsed, proc,
                   waLoaded, unexpectedHook, cors, reqs>>

\* line 124: prismaRepository.onModuleInit() settles
PrismaInit(ok) ==
    /\ pc = "awaitPrisma" /\ Alive
    /\ IF ok THEN /\ pc' = "select"
                  /\ hist' = [hist EXCEPT !.inits = Append(@, "prisma:ok")]
             ELSE /\ pc' = "aborted"
                  /\ hist' = [hist EXCEPT !.abortAt = "awaitPrisma",
                                          !.inits = Append(@, "prisma:fail")]
    /\ UNCHANGED <<env, httpServer, providerEnabled, servers, server, emInit, log,
                   sigtermHandlers, sigterms, closeCbs, timers, elapsed, proc,
                   waLoaded, unexpectedHook, cors, reqs>>

\* a listener object as ServerUP creates it
NewListener(kind) ==
    [kind |-> kind, state |-> "created", port |-> Undefined, closeCalls |-> 0]

\* ServerUP[type] with the certificate files readable (certOk) or not: the
\* pair <<servers after the access, value of the property>>
ServerUPGet(type, certOk) ==
    CASE type = "https" /\ certOk ->
            <<Append(servers, NewListener("https")), Len(servers) + 1>>
      [] type = "https" /\ ~certOk -> <<servers, NullRef>>
      [] type = "http" -> <<Append(servers, NewListener("http")), Len(servers) + 1>>
      [] OTHER -> <<servers, UndefinedRef>>

\* lines 127-129
SelectTransport(certOk) ==
    /\ pc = "select" /\ Alive
    /\ LET got == ServerUPGet(httpServer.TYPE, certOk)
       IN  /\ servers' = got[1]
           /\ server' = got[2]
    /\ hist' = [hist EXCEPT !.certFailed = (httpServer.TYPE = "https" /\ ~certOk)]
    /\ pc' = "fallback"
    /\ UNCHANGED <<env, httpServer, providerEnabled, emInit, log,
                   sigtermHandlers, sigterms, closeCbs, timers, elapsed, proc,
                   waLoaded, unexpectedHook, cors, reqs>>

SslFailedLog ==
    <<[level |-> "warn",
       msg |-> <<"SSL", "cert", "load", "failed", "falling", "back", "to", "HTTP">>],
      [level |-> "info",
       msg |-> <<"Ensure", "SSL_CONF_PRIVKEY", "and", "SSL_CONF_FULLCHAIN", "env",
                 "vars", "point", "to", "valid", "certificate", "files">>]>>

\* the second selection made before the kind is downgraded
Downgrade_reselectFirst ==
    /\ LET got == ServerUPGet(httpServer.TYPE, FALSE)
       IN  /\ servers' = got[1]
           /\ server' = got[2]
    /\ httpServer' = [httpServer EXCEPT !.TYPE = "http"]

\* the plain listener selected, the configured kind left as it was
Downgrade_keepKind ==
    /\ UNCHANGED httpServer
    /\ LET got == ServerUPGet("http", FALSE)
       IN  /\ servers' = got[1]
           /\ server' = got[2]

\* lines 135-136: the downgrade of the configured kind, then the second
\* selection, which reads the kind just written
Downgrade ==
    /\ httpServer' = [httpServer EXCEPT !.TYPE = "http"]
    /\ LET got == ServerUPGet(httpServer'.TYPE, FALSE)
       IN  /\ servers' = got[1]
           /\ server' = got[2]

\* lines 132-137
SslFallback ==
    /\ pc = "fallback" /\ Alive
    /\ IF server = NullRef
         THEN /\ log' = log \o SslFailedLog
              /\ Downgrade
         ELSE UNCHANGED <<log, httpServer, servers, server>>
    /\ pc' = "port"
    /\ UNCHANGED <<env, providerEnabled, emInit,
                   sigtermHandlers, sigterms, closeCbs, timers, elapsed, proc,
                   waLoaded, unexpectedHook, hist, cors, reqs>>

\* the resolution written with || in place of ??
ResolvedPort_or(override, configured) ==
    Number(Or(override, Or(configured, Num(DefaultPort))))

\* line 140
ResolvedPort(override, configured) ==
    Number(Nullish(override, Nullish(configured, Num(DefaultPort))))

\* lines 140-141
ResolvePort ==
    /\ pc = "port" /\ Alive
    /\ httpServer' = [httpServer EXCEPT !.PORT = ResolvedPort(env, httpServer.PORT)]
    /\ pc' = "eventManager"
    /\ UNCHANGED <<env, providerEnabled, servers, server, emInit, log,
                   sigtermHandlers, sigterms, closeCbs, timers, elapsed, proc,
                   waLoaded, unexpectedHook, hist, cors, reqs>>

\* the init with no try around it: what it throws rejects bootstrap()
EventManagerInit_propagate(outcome) ==
    /\ pc = "eventManager" /\ Alive
    /\ emInit' = outcome
    /\ IF outcome = "threw"
         THEN Abort("eventManager")
         ELSE pc' = "listen" /\ UNCHANGED hist
    /\ UNCHANGED <<env, httpServer, providerEnabled, servers, server, log,
                   sigtermHandlers, sigterms, closeCbs, timers, elapsed, proc,
                   waLoaded, unexpectedHook, cors, reqs>>

\* lines 144-148: eventManager is absent, or its init returns, or it throws
EventManagerInit(outcome) ==
    /\ pc = "eventManager" /\ Alive
    /\ emInit' = outcome
    /\ IF outcome = "threw"
         THEN Logged([level |-> "warn", msg |-> <<"eventManager", "init", "skipped">>])
         ELSE UNCHANGED log
    /\ pc' = "listen"
    /\ UNCHANGED <<env, httpServer, providerEnabled, servers, server,
                   sigtermHandlers, sigterms, closeCbs, timers, elapsed, proc,
                   waLoaded, unexpectedHook, hist, cors, reqs>>

\* line 151: server.listen(httpServer.PORT). A `server` that is no object
\* (undefined) or an invalid port makes the call throw and bootstrap() reject;
\* otherwise the socket is bound in the call (sync) or later
Listen(sync) ==
    /\ pc = "listen" /\ Alive
    /\ IF IsObject(server) /\ ValidPort(httpServer.PORT)
         THEN /\ servers' = [servers EXCEPT
                    ![server].state = IF sync THEN "listening" ELSE "binding",
                    ![server].port = httpServer.PORT]
              /\ pc' = "logOn"
              /\ UNCHANGED hist
         ELSE /\ Abort("listen")
              /\ UNCHANGED servers
    /\ UNCHANGED <<env, httpServer, providerEnabled, server, emInit, log,
                   sigtermHandlers, sigterms, closeCbs, timers, elapsed, proc,
                   waLoaded, unexpectedHook, cors, reqs>>

\* the log step writing the upper-cased kind back into the configuration
LogOn_writesType ==
    /\ pc = "logOn" /\ Alive
    /\ Logged([level |-> "log",
               msg |-> <<ToUpperCase(httpServer.TYPE), "-", "ON:">>,
               port |-> httpServer.PORT])
    /\ httpServer' = [httpServer EXCEPT !.TYPE = ToUpperCase(@)]
    /\ pc' = "sigterm"
    /\ UNCHANGED <<env, providerEnabled, servers, server, emInit,
                   sigtermHandlers, sigterms, closeCbs, timers, elapsed, proc,
                   waLoaded, unexpectedHook, hist, cors, reqs>>

\* line 154
LogOn ==
    /\ pc = "logOn" /\ Alive
    /\ Logged([level |-> "log",
               msg |-> <<ToUpperCase(httpServer.TYPE), "-", "ON:">>,
               port |-> httpServer.PORT])
    /\ pc' = "sigterm"
    /\ UNCHANGED <<env, httpServer, providerEnabled, servers, server, emInit,
                   sigtermHandlers, sigterms, closeCbs, timers, elapsed, proc,
                   waLoaded, unexpectedHook, hist, cors, reqs>>

\* line 157: process.on('SIGTERM', ...)
RegisterSigterm ==
    /\ pc = "sigterm" /\ Alive
    /\ sigtermHandlers' = sigtermHandlers + 1
    /\ pc' = "initWA"
    /\ UNCHANGED <<env, httpServer, providerEnabled, servers, server, emInit, log,
                   sigterms, closeCbs, timers, elapsed, proc,
                   waLoaded, unexpectedHook, hist, cors, reqs>>

\* lines 21-23, 171
InitWA ==
    /\ pc = "initWA" /\ Alive
    /\ waLoaded' = TRUE
    /\ pc' = "onUnexpectedError"
    /\ UNCHANGED <<env, httpServer, providerEnabled, servers, server, emInit, log,
                   sigtermHandlers, sigterms, closeCbs, timers, elapsed, proc,
                   unexpectedHook, hist, cors, reqs>>

\* line 172, after which bootstrap() returns
OnUnexpectedError ==
    /\ pc = "onUnexpectedError" /\ Alive
    /\ unexpectedHook' = TRUE
    /\ pc' = "done"
    /\ UNCHANGED <<env, httpServer, providerEnabled, servers, server, emInit, log,
                   sigtermHandlers, sigterms, closeCbs, timers, elapsed, proc,
                   waLoaded, hist, cors, reqs>>

----------------------------------------------------------------------------
(* Events of the running process *)

\* the asynchronous completion of a bind that listen() left pending
BindSettle(ok) ==
    /\ AtEventLoop /\ Alive
    /\ IsObject(server) /\ servers[server].state = "binding"
    /\ servers' = [servers EXCEPT ![server].state = IF ok THEN "listening" ELSE "failed"]
    /\ UNCHANGED <<pc, env, httpServer, providerEnabled, server, emInit, log,
                   sigtermHandlers, sigterms, closeCbs, timers, elapsed, proc,
                   waLoaded, unexpectedHook, hist, cors, reqs>>

\* SIGTERM while no handler is registered: the default disposition
SigtermDefault ==
    /\ Alive /\ sigtermHandlers = 0
    /\ Exit(143, "signal")
    /\ UNCHANGED <<pc, env, httpServer, providerEnabled, servers, server, emInit, log,
                   sigtermHandlers, sigterms, closeCbs, timers, elapsed,
                   waLoaded, unexpectedHook, hist, cors, reqs>>

\* no fallback timer
ArmFallbackTimer_never == UNCHANGED timers

\* line 164: setTimeout(() => process.exit(0), 10_000)
ArmFallbackTimer == timers' = Append(timers, ShutdownTimeout)

\* the catch block exiting with code 0
CloseFailed_exit0 ==
    /\ log' = log \o
          <<[level |-> "warn", msg |-> <<"SIGTERM", "received">>],
            [level |-> "error", msg |-> <<"Error", "on", "graceful", "shutdown">>]>>
    /\ Exit(0, "closeThrew")

\* lines 165-168: the catch block
CloseFailed ==
    /\ log' = log \o
          <<[level |-> "warn", msg |-> <<"SIGTERM", "received">>],
            [level |-> "error", msg |-> <<"Error", "on", "graceful", "shutdown">>]>>
    /\ Exit(1, "closeThrew")

\* lines 160-163: server.close(cb) on the listener `server` refers to
CloseListener ==
    /\ servers' = [servers EXCEPT
          ![server].state = IF @ \in {"listening", "binding"} THEN "closing" ELSE @,
          ![server].closeCalls = @ + 1]
    /\ closeCbs' = closeCbs + 1

\* lines 157-169: the handler, run once per signal; server.close may
\* throw (closeThrows), and does when `server` is no object
SigtermHandler(closeThrows) ==
    /\ AtEventLoop /\ Alive /\ sigtermHandlers > 0
    /\ sigterms < MaxSigterm
    /\ sigterms' = sigterms + 1
    /\ IF closeThrows \/ ~IsObject(server)
         THEN /\ CloseFailed
              /\ UNCHANGED <<servers, closeCbs, timers>>
         ELSE /\ Logged([level |-> "warn", msg |-> <<"SIGTERM", "received">>])
              /\ CloseListener
              /\ ArmFallbackTimer
              /\ UNCHANGED proc
    /\ UNCHANGED <<pc, env, httpServer, providerEnabled, server, emInit,
                   sigtermHandlers, elapsed, waLoaded, unexpectedHook, hist, cors, reqs>>

\* the close callback leaving the exit to the timer
CloseCallback_waitsForTimer ==
    /\ AtEventLoop /\ Alive /\ closeCbs > 0
    /\ Logged([level |-> "info", msg |-> <<"HTTP", "server", "closed">>])
    /\ closeCbs' = closeCbs - 1
    /\ servers' = [servers EXCEPT ![server].state = "closed"]
    /\ UNCHANGED <<pc, env, httpServer, providerEnabled, server, emInit,
                   sigtermHandlers, sigterms, timers, elapsed, proc,
                   waLoaded, unexpectedHook, hist, cors, reqs>>

\* lines 160-163: the listener emitted 'close' (every connection has ended)
CloseCallback ==
    /\ AtEventLoop /\ Alive /\ closeCbs > 0
    /\ Logged([level |-> "info", msg |-> <<"HTTP", "server", "closed">>])
    /\ closeCbs' = closeCbs - 1
    /\ servers' = [servers EXCEPT ![server].state = "closed"]
    /\ Exit(0, "closeCallback")
    /\ UNCHANGED <<pc, env, httpServer, providerEnabled, server, emInit,
                   sigtermHandlers, sigterms, timers, elapsed,
                   waLoaded, unexpectedHook, hist, cors, reqs>>

\* one second passes while a fallback timer is armed and none is due
Tick ==
    /\ Alive /\ timers # <<>>
    /\ \A i \in 1..Len(timers) : timers[i] > 0
    /\ timers' = [i \in 1..Len(timers) |-> timers[i] - 1]
    /\ elapsed' = elapsed + 1
    /\ UNCHANGED <<pc, env, httpServer, providerEnabled, servers, server, emInit, log,
                   sigtermHandlers, sigterms, closeCbs, proc,
                   waLoaded, unexpectedHook, hist, cors, reqs>>

\* line 164: a fallback timer is due
TimerFire ==
    /\ AtEventLoop /\ Alive
    /\ \E i \in 1..Len(timers) : timers[i] = 0
    /\ Exit(0, "timer")
    /\ UNCHANGED <<pc, env, httpServer, providerEnabled, servers, server, emInit, log,
                   sigtermHandlers, sigterms, closeCbs, timers, elapsed,
                   waLoaded, unexpectedHook, hist, cors, reqs>>

----------------------------------------------------------------------------
(* The configurations a start-up can find *)

TransportTypes == {"http", "https", "ws"}
ConfiguredPorts == {Undefined, Null, Num(3000)}
EnvPorts == {Undefined, Str(<<"9", "0", "0", "0">>), Str(<<>>), Str(<<"x">>)}

Init ==
    /\ pc = "idle"
    /\ env \in EnvPorts
    /\ httpServer \in [TYPE : TransportTypes, PORT : ConfiguredPorts]
    /\ providerEnabled \in BOOLEAN
    /\ servers = <<>>
    /\ server = UndefinedRef
    /\ emInit = "none"
    /\ log = <<>>
    /\ sigtermHandlers = 0
    /\ sigterms = 0
    /\ closeCbs = 0
    /\ timers = <<>>
    /\ elapsed = 0
    /\ proc = [alive |-> TRUE, exitCode |-> 0, via |-> "none"]
    /\ waLoaded = FALSE
    /\ unexpectedHook = FALSE
    /\ hist = [TYPE |-> httpServer.TYPE, PORT |-> httpServer.PORT,
               certFailed |-> FALSE, abortAt |-> "none", inits |-> <<>>]
    /\ cors = [ORIGIN |-> <<Str(<<"*">>)>>]
    /\ reqs = <<>>

Next ==
    \/ Configure
    \/ \E ok \in BOOLEAN : ProviderInit(ok)
    \/ \E ok \in BOOLEAN : PrismaInit(ok)
    \/ \E certOk \in BOOLEAN : SelectTransport(certOk)
    \/ SslFallback
    \/ ResolvePort
    \/ \E outcome \in {"absent", "ok", "threw"} : EventManagerInit(outcome)
    \/ \E sync \in BOOLEAN : Listen(sync)
    \/ LogOn
    \/ RegisterSigterm
    \/ InitWA
    \/ OnUnexpectedError
    \/ \E ok \in BOOLEAN : BindSettle(ok)
    \/ SigtermDefault
    \/ \E closeThrows \in BOOLEAN : SigtermHandler(closeThrows)
    \/ CloseCallback
    \/ Tick
    \/ TimerFire

Spec == Init /\ [][Next]_vars

\* time passes and a due timer fires; nothing else is promised: a collaborator
\* init may never settle and the listener may never emit 'close'
FairSpec == Spec /\ WF_vars(Tick) /\ WF_vars(TimerFire)

\* lines 144-172 hold no await: once the port is resolved, bootstrap() runs
\* on to its end unless a statement throws or the process is killed
StartSpec ==
    /\ Spec
    /\ WF_vars(\E outcome \in {"absent", "ok", "threw"} : EventManagerInit(outcome))
    /\ WF_vars(\E sync \in BOOLEAN : Listen(sync))
    /\ WF_vars(LogOn)
    /\ WF_vars(RegisterSigterm)
    /\ WF_vars(InitWA)
    /\ WF_vars(OnUnexpectedError)

----------------------------------------------------------------------------
(* The middleware chain, lines 30-112, as a request passes through it.     *)
(* The synchronous part of a step runs to completion: while one request is *)
(* inside it, no other request and no webhook completion is handled.       *)

\* an Error object with its optional `status` and `error` attributes
ErrorObj(message, status, error) ==
    [kind |-> "error", message |-> message, status |-> status, error |-> error]

\* Array.prototype.includes
Includes(arr, v) == \E i \in 1..Len(arr) : arr[i] = v

\* Array.prototype.indexOf: the first position, counted from 0, or -1
IndexOf(arr, v) ==
    IF Includes(arr, v)
    THEN (CHOOSE i \in 1..Len(arr) :
              arr[i] = v /\ \A j \in 1..(i - 1) : arr[j] # v) - 1
    ELSE -1

\* line 36: new Error('Not allowed by CORS')
CorsError ==
    ErrorObj(Str(<<"Not", "allowed", "by", "CORS">>), Undefined, Undefined)

\* the origin check with indexOf(...) > 0
CorsOrigin_indexPositive(ORIGIN, requestOrigin) ==
    IF Includes(ORIGIN, Str(<<"*">>)) THEN [err |-> Null, allow |-> TRUE]
    ELSE IF ~Falsy(requestOrigin) /\ IndexOf(ORIGIN, requestOrigin) > 0
         THEN [err |-> Null, allow |-> TRUE]
    ELSE [err |-> CorsError, allow |-> FALSE]

\* lines 32-37: what the origin function passes to its callback
CorsOrigin(ORIGIN, requestOrigin) ==
    IF Includes(ORIGIN, Str(<<"*">>)) THEN [err |-> Null, allow |-> TRUE]
    ELSE IF ~Falsy(requestOrigin) /\ IndexOf(ORIGIN, requestOrigin) # -1
         THEN [err |-> Null, allow |-> TRUE]
    ELSE [err |-> CorsError, allow |-> FALSE]

NoResponse == [sent |-> FALSE]

InternalServerErrorText == Str(<<"Internal", "Server", "Error">>)

\* the status line left at 500 whatever status the body carries
ErrorResponse_statusFixed(err) ==
    [sent |-> TRUE, by |-> "error",
     status |-> Num(InternalServerError),
     body |-> [status |-> Or(err.status, Num(InternalServerError)),
               error |-> Or(err.error, InternalServerErrorText),
               response |-> [message |-> Or(err.message, InternalServerErrorText)]]]

\* lines 96-100: the response of the error middleware
ErrorResponse(err) ==
    [sent |-> TRUE, by |-> "error",
     status |-> Or(err.status, Num(InternalServerError)),
     body |-> [status |-> Or(err.status, Num(InternalServerError)),
               error |-> Or(err.error, InternalServerErrorText),
               response |-> [message |-> Or(err.message, InternalServerErrorText)]]]

\* line 55
HealthzResponse ==
    [sent |-> TRUE, by |-> "healthz", status |-> Num(200), body |-> Str(<<"ok">>)]

\* lines 105-110
NotFoundResponse(method, url) ==
    [sent |-> TRUE, by |-> "notFound",
     status |-> Num(NOT_FOUND),
     body |-> [status |-> Num(NOT_FOUND),
               error |-> Str(<<"Not", "Found">>),
               response |-> [message |-> <<Str(<<"Cannot", method, url>>)>>]]]

\* a response written by a route of the external router
RouterResponse ==
    [sent |-> TRUE, by |-> "router", status |-> Num(200), body |-> Str(<<"routed">>)]

SyncStages == {"cors", "routes", "error", "notFound", "final"}
Running == \E r \in 1..Len(reqs) : reqs[r].stage \in SyncStages

\* the listener accepts connections
Serving ==
    /\ Alive /\ pc = "done"
    /\ IsObject(server) /\ servers[server].state = "listening"

\* a request arrives on the listener
Arrive(method, url, origin) ==
    /\ Serving /\ ~Running
    /\ Len(reqs) < MaxReq
    /\ reqs' = Append(reqs,
          [method |-> method, url |-> url, origin |-> origin, stage |-> "cors",
           corsResult |-> [err |-> Null, allow |-> FALSE],
           err |-> Null, webhook |-> Undefined, hook |-> "none", posts |-> 0,
           res |-> NoResponse, writes |-> 0])
    /\ UNCHANGED <<lifeVars, cors>>

\* lines 31-40: the cors middleware; an error from the origin function goes
\* to next(err), which skips every route
Cors(r) ==
    /\ reqs[r].stage = "cors"
    /\ LET result == CorsOrigin(cors.ORIGIN, reqs[r].origin)
       IN  reqs' = [reqs EXCEPT
              ![r].corsResult = result,
              ![r].err = result.err,
              ![r].stage = IF result.err = Null /\ result.allow
                           THEN "routes" ELSE "error"]
    /\ UNCHANGED <<lifeVars, cors>>

\* lines 48-55: the external router (which has no /healthz route) answers,
\* passes, or fails with e; then the /healthz route
Routes(r, outcome, e) ==
    /\ reqs[r].stage = "routes"
    /\ IF reqs[r].url = "/healthz"
         THEN /\ outcome = "next"
              /\ reqs' = [reqs EXCEPT
                    ![r].res = IF reqs[r].method = "GET" THEN HealthzResponse ELSE @,
                    ![r].writes = IF reqs[r].method = "GET" THEN @ + 1 ELSE @,
                    ![r].stage = IF reqs[r].method = "GET" THEN "done" ELSE "notFound"]
         ELSE reqs' = [reqs EXCEPT
                    ![r].res = IF outcome = "handled" THEN RouterResponse ELSE @,
                    ![r].writes = IF outcome = "handled" THEN @ + 1 ELSE @,
                    ![r].err = IF outcome = "error" THEN e ELSE @,
                    ![r].stage = CASE outcome = "handled" -> "done"
                                   [] outcome = "next" -> "notFound"
                                   [] outcome = "error" -> "error"]
    /\ UNCHANGED <<lifeVars, cors>>

\* the guard looking only at whether EVENTS is there
DispatchGuard_eventsOnly(webhook) ==
    IF webhook.EVENTS.kind = "undefined" THEN "throws" ELSE "dispatch"

\* line 69: the guard of the dispatch; reading ERRORS_WEBHOOK of a missing
\* EVENTS throws
DispatchGuard(webhook) ==
    IF webhook.EVENTS.kind = "undefined" THEN "throws"
    ELSE IF ~Falsy(webhook.EVENTS.ERRORS_WEBHOOK)
            /\ webhook.EVENTS.ERRORS_WEBHOOK # Str(<<>>)
         THEN "dispatch" ELSE "skip"

\* the middleware passing the request on after it has answered
ErrorMiddleware_alwaysNext(r, webhook, buildOk) ==
    /\ reqs[r].stage = "error"
    /\ UNCHANGED log
    /\ reqs' = [reqs EXCEPT
          ![r].webhook = webhook,
          ![r].hook = "skipped",
          ![r].res = ErrorResponse(reqs[r].err),
          ![r].writes = @ + 1,
          ![r].stage = "notFound"]
    /\ UNCHANGED <<pc, env, httpServer, providerEnabled, servers, server, emInit,
                   sigtermHandlers, sigterms, closeCbs, timers, elapsed, proc,
                   waLoaded, unexpectedHook, hist, cors>>

\* lines 64-100 up to the await: called with no error the middleware only
\* passes the request on (line 65); with no dispatch (not configured, or an
\* exception caught at line 92) the response is written in the same step
ErrorMiddleware(r, webhook, buildOk) ==
    /\ reqs[r].stage = "error"
    /\ LET guard == DispatchGuard(webhook)
       IN  IF reqs[r].err = Null
             THEN /\ UNCHANGED log
                  /\ reqs' = [reqs EXCEPT ![r].stage = "notFound"]
             ELSE IF guard = "dispatch" /\ buildOk
             THEN /\ Logged([level |-> "error", msg |-> <<"error">>])
                  /\ reqs' = [reqs EXCEPT ![r].webhook = webhook,
                                          ![r].hook = "pending",
                                          ![r].posts = @ + 1,
                                          ![r].stage = "awaitWebhook"]
             ELSE /\ UNCHANGED log
                  /\ reqs' = [reqs EXCEPT
                        ![r].webhook = webhook,
                        ![r].hook = IF guard = "skip" THEN "skipped" ELSE "threw",
                        ![r].res = ErrorResponse(reqs[r].err),
                        ![r].writes = @ + 1,
                        ![r].stage = "done"]
    /\ UNCHANGED <<pc, env, httpServer, providerEnabled, servers, server, emInit,
                   sigtermHandlers, sigterms, closeCbs, timers, elapsed, proc,
                   waLoaded, unexpectedHook, hist, cors>>

\* a rejected post leaving the middleware uncaught, so that the framework's
\* own error page is the answer
WebhookSettle_rethrow(r, ok) ==
    /\ ~Running
    /\ reqs[r].stage = "awaitWebhook"
    /\ reqs' = [reqs EXCEPT
          ![r].hook = IF ok THEN "resolved" ELSE "rejected",
          ![r].res = IF ok THEN ErrorResponse(reqs[r].err)
                     ELSE [sent |-> TRUE, by |-> "express",
                           status |-> Num(InternalServerError),
                           body |-> Str(<<"<html>">>)],
          ![r].writes = @ + 1,
          ![r].stage = "done"]
    /\ UNCHANGED <<lifeVars, cors>>

\* lines 90-100: the post settles (a rejection is caught at line 92) and the
\* response is written
WebhookSettle(r, ok) ==
    /\ ~Running
    /\ reqs[r].stage = "awaitWebhook"
    /\ reqs' = [reqs EXCEPT
          ![r].hook = IF ok THEN "resolved" ELSE "rejected",
          ![r].res = ErrorResponse(reqs[r].err),
          ![r].writes = @ + 1,
          ![r].stage = "done"]
    /\ UNCHANGED <<lifeVars, cors>>

\* lines 104-111: the 404 handler writes its envelope without looking at
\* the response (on one already sent, res.json() throws and nothing is
\* changed), then calls next()
NotFound(r) ==
    /\ reqs[r].stage = "notFound"
    /\ reqs' = [reqs EXCEPT
          ![r].res = IF @.sent THEN @
                     ELSE NotFoundResponse(reqs[r].method, reqs[r].url),
          ![r].writes = @ + 1,
          ![r].stage = IF reqs[r].res.sent THEN "done" ELSE "final"]
    /\ UNCHANGED <<lifeVars, cors>>

\* line 111: next() with nothing left in the chain reaches the framework's
\* final handler, which answers 404 itself unless the response is under way
FinalHandler(r) ==
    /\ reqs[r].stage = "final"
    /\ reqs' = [reqs EXCEPT
          ![r].res = IF @.sent THEN @
                     ELSE [sent |-> TRUE, by |-> "express",
                           status |-> Num(NOT_FOUND), body |-> Str(<<"<html>">>)],
          ![r].writes = IF reqs[r].res.sent THEN @ ELSE @ + 1,
          ![r].stage = "done"]
    /\ UNCHANGED <<lifeVars, cors>>

----------------------------------------------------------------------------
(* The requests and configurations followed *)

Requests == {<<"GET", "/healthz">>, <<"PATCH", "/foo/bar">>}
\* the Origin header: absent, empty, or the origin "a"
OriginHeaders == {Undefined, Str(<<>>), Str(<<"a">>)}
\* ORIGIN: the wildcard alone and after another entry, "a" first, "a" second,
\* and a list that holds only the empty string
CorsOrigins ==
    {<<Str(<<"*">>)>>, <<Str(<<"b">>), Str(<<"*">>)>>, <<Str(<<"a">>)>>,
     <<Str(<<"b">>), Str(<<"a">>)>>, <<Str(<<>>)>>}
\* errors of the router: one with a status and an error text, one whose
\* status and error text are falsy (an error with neither is CorsError)
RouterErrors ==
    {ErrorObj(Str(<<>>), Num(400), Str(<<"Bad", "Request">>)),
     ErrorObj(Str(<<"x">>), Num(0), Str(<<>>))}
EventsObj(url) == [kind |-> "object", ERRORS_WEBHOOK |-> url]
Webhooks ==
    {[EVENTS |-> Undefined],
     [EVENTS |-> EventsObj(Undefined)],
     [EVENTS |-> EventsObj(Str(<<>>))],
     [EVENTS |-> EventsObj(Str(<<"http://hook">>))]}

\* the process after a start-up on the plain listener with the default port
ServingState ==
    /\ pc = "done"
    /\ env = Undefined
    /\ httpServer = [TYPE |-> "http", PORT |-> Num(DefaultPort)]
    /\ providerEnabled = FALSE
    /\ servers = <<[kind |-> "http", state |-> "listening",
                    port |-> Num(DefaultPort), closeCalls |-> 0]>>
    /\ server = 1
    /\ emInit = "ok"
    /\ log = <<[level |-> "log", msg |-> <<"HTTP", "-", "ON:">>,
                port |-> Num(DefaultPort)]>>
    /\ sigtermHandlers = 1
    /\ sigterms = 0
    /\ closeCbs = 0
    /\ timers = <<>>
    /\ elapsed = 0
    /\ proc = [alive |-> TRUE, exitCode |-> 0, via |-> "none"]
    /\ waLoaded = TRUE
    /\ unexpectedHook = TRUE
    /\ hist = [TYPE |-> "http", PORT |-> Undefined,
               certFailed |-> FALSE, abortAt |-> "none",
               inits |-> <<"prisma:start", "prisma:ok">>]

ReqInit ==
    /\ ServingState
    /\ cors \in [ORIGIN : CorsOrigins]
    /\ reqs = <<>>

ReqNext ==
    \/ \E q \in Requests, origin \in OriginHeaders : Arrive(q[1], q[2], origin)
    \/ \E r \in 1..Len(reqs) : Cors(r)
    \/ \E r \in 1..Len(reqs), outcome \in {"handled", "next", "error"},
          e \in RouterErrors : Routes(r, outcome, e)
    \/ \E r \in 1..Len(reqs), webhook \in Webhooks, buildOk \in BOOLEAN :
          ErrorMiddleware(r, webhook, buildOk)
    \/ \E r \in 1..Len(reqs), ok \in BOOLEAN : WebhookSettle(r, ok)
    \/ \E r \in 1..Len(reqs) : NotFound(r)
    \/ \E r \in 1..Len(reqs) : FinalHandler(r)

ReqSpec == ReqInit /\ [][ReqNext]_vars

----------------------------------------------------------------------------
(* Properties of start-up and shutdown *)

Started == {"logOn", "sigterm", "initWA", "onUnexpectedError", "done"}
PortResolved == {"eventManager", "listen"} \cup Started

LogHas(words) == \E i \in 1..Len(log) : words \subseteq Range(log[i].msg)

\* C1: once the SIGTERM handler has run, the process exits, and no later than
\* ShutdownTimeout seconds after the handler first ran, also when the
\* listener never emits 'close'
C1_ShutdownBounded ==
    /\ [](sigterms > 0 /\ Alive => elapsed <= ShutdownTimeout)
    /\ (sigterms > 0) ~> ~Alive

\* the fallback timer ended a shutdown whose close callback never fired
C1_Witness ==
    /\ ~Alive /\ proc.via = "timer"
    /\ closeCbs > 0 /\ servers[server].state = "closing"
    /\ elapsed = ShutdownTimeout

\* C2: after the SIGTERM handler has run the process exits with code 0 through
\* the close callback or the fallback timer, and with code 1 exactly when
\* server.close threw (the catch block logged it); with no other code
C2_ExitCodes ==
    (sigterms > 0 /\ ~Alive) =>
        /\ proc.exitCode \in {0, 1}
        /\ proc.exitCode = 0 <=> proc.via \in {"closeCallback", "timer"}
        /\ proc.exitCode = 1 <=> proc.via = "closeThrew"
        /\ proc.via = "closeThrew" <=> LogHas({"Error", "graceful", "shutdown"})

\* server.close threw on the second SIGTERM, while the first close was pending
C2_Witness ==
    /\ ~Alive /\ proc.exitCode = 1 /\ proc.via = "closeThrew"
    /\ sigterms = 2 /\ closeCbs = 1

\* C3: close is invoked on the listener exactly once during shutdown, however
\* many SIGTERMs are delivered before the process exits
C3_ClosedExactlyOnce ==
    /\ \A i \in 1..Len(servers) : servers[i].closeCalls <= 1
    /\ (~Alive /\ proc.via \in {"closeCallback", "timer"}) =>
            servers[server].closeCalls = 1

\* C4: when the configured kind is https and the certificate load fails, the
\* fallback logs the entry naming SSL_CONF_PRIVKEY and SSL_CONF_FULLCHAIN, the
\* configured kind becomes http, `server` is the one plain listener, and
\* bootstrap() goes on to server.listen on it: it rejects only if listen itself
\* refuses the resolved port
C4_TlsFallback ==
    (hist.TYPE = "https" /\ hist.certFailed /\ pc # "fallback") =>
        /\ LogHas({"SSL_CONF_PRIVKEY", "SSL_CONF_FULLCHAIN"})
        /\ httpServer.TYPE = "http"
        /\ Len(servers) = 1 /\ server = 1 /\ servers[server].kind = "http"
        /\ pc = "aborted" => (hist.abortAt = "listen" /\ ~ValidPort(httpServer.PORT))
        /\ pc \in Started => servers[server].state # "created"

\* a start-up whose certificate load failed is serving on the plain listener
C4_Witness ==
    /\ hist.TYPE = "https" /\ hist.certFailed
    /\ pc = "done" /\ Alive
    /\ servers[server].kind = "http" /\ servers[server].state = "listening"

Bound == {i \in 1..Len(servers) : servers[i].state \in {"binding", "listening"}}

\* C5: at most one listener is bound, and the kind in the configuration and
\* the kind the start-up log line reports are the kind of the bound listener
C5_OneListenerOfConfiguredKind ==
    /\ Cardinality(Bound) <= 1
    /\ \A i \in Bound :
          /\ httpServer.TYPE = servers[i].kind
          /\ \A j \in 1..Len(log) :
                log[j].level = "log" => log[j].msg[1] = ToUpperCase(servers[i].kind)

\* after a failed certificate load the plain listener is bound and reported
C5_Witness ==
    /\ hist.TYPE = "https" /\ hist.certFailed
    /\ Bound = {server} /\ servers[server].kind = "http"
    /\ log[Len(log)].level = "log" /\ log[Len(log)].msg[1] = "HTTP"

\* C6: the effective port is the override (as a number) when process.env.PORT
\* is present, else the configured port when present, else 8080; it is in the
\* configuration from the resolution on, so before any listen, and listen is
\* called with that value
C6_PortPrecedence ==
    LET effective ==
            IF env.kind = "string" THEN Number(env)
            ELSE IF hist.PORT.kind = "number" THEN hist.PORT
            ELSE Num(8080)
    IN  /\ (pc \in PortResolved \/ hist.abortAt = "listen") =>
               httpServer.PORT = effective
        /\ \A i \in 1..Len(servers) :
               servers[i].state # "created" =>
                  /\ servers[i].port = effective
                  /\ httpServer.PORT = effective

\* the override 9000 wins over the configured 3000 and is the port bound
C6_Witness ==
    /\ env = Str(<<"9", "0", "0", "0">>) /\ hist.PORT = Num(3000)
    /\ pc = "done"
    /\ httpServer.PORT = Num(9000)
    /\ servers[server].state = "listening" /\ servers[server].port = Num(9000)

----------------------------------------------------------------------------
(* Properties of the middleware chain *)

Finished(r) == reqs[r].stage = "done"

\* C7: every GET /healthz that has been handled was answered, and with
\* status 200 and body "ok", whatever its Origin header and the CORS
\* configuration
C7_HealthzAlwaysOk ==
    \A r \in 1..Len(reqs) :
        (reqs[r].method = "GET" /\ reqs[r].url = "/healthz" /\ reqs[r].stage # "cors") =>
            /\ reqs[r].stage \in {"routes", "done"}
            /\ Finished(r) => (reqs[r].res.sent
                                /\ reqs[r].res.status = Num(200)
                                /\ reqs[r].res.body = Str(<<"ok">>))

\* C8: the response of the error middleware does not wait for the webhook
\* request: no request has its webhook post in flight and its response
\* still unsent
C8_ResponseNotBehindWebhook ==
    \A r \in 1..Len(reqs) : reqs[r].hook = "pending" => reqs[r].res.sent

ByErrorMiddleware(r) == Finished(r) /\ reqs[r].hook # "none"

\* C9: two requests that reached the error middleware with the same error
\* were answered with the same status and body, whatever became of the
\* webhook dispatch of each (skipped, threw while building, resolved, rejected)
C9_ResponseIndependentOfWebhook ==
    \A r1, r2 \in 1..Len(reqs) :
        (ByErrorMiddleware(r1) /\ ByErrorMiddleware(r2) /\ reqs[r1].err = reqs[r2].err) =>
            /\ reqs[r1].res.sent /\ reqs[r2].res.sent
            /\ reqs[r1].res.status = reqs[r2].res.status
            /\ reqs[r1].res.body = reqs[r2].res.body

\* the same error answered once after a rejected post and once with no
\* dispatch attempted
C9_Witness ==
    \E r1, r2 \in 1..Len(reqs) :
        /\ ByErrorMiddleware(r1) /\ ByErrorMiddleware(r2)
        /\ reqs[r1].err = reqs[r2].err
        /\ reqs[r1].hook = "rejected" /\ reqs[r2].hook = "skipped"
        /\ reqs[r1].res.sent /\ reqs[r2].res.sent

Wildcard == Str(<<"*">>)

\* C10: the origin check allows exactly when ORIGIN holds '*' or the request
\* has a non-empty Origin that is an element of ORIGIN; every other request
\* fails with the fixed 'Not allowed by CORS' error, in whose text no
\* configured origin appears
C10_CorsDecision ==
    \A r \in 1..Len(reqs) :
        reqs[r].stage # "cors" =>
            LET result == reqs[r].corsResult
                origin == reqs[r].origin
                member == /\ origin.kind = "string" /\ origin.chars # <<>>
                          /\ origin \in Range(cors.ORIGIN)
                allowed == result.err = Null /\ result.allow
            IN  /\ allowed <=> (Wildcard \in Range(cors.ORIGIN) \/ member)
                /\ ~allowed =>
                      /\ result.err.kind = "error"
                      /\ result.err.message = Str(<<"Not", "allowed", "by", "CORS">>)
                      /\ \A i \in 1..Len(cors.ORIGIN) :
                            Range(cors.ORIGIN[i].chars) \cap
                                Range(result.err.message.chars) = {}

\* with no wildcard configured, a listed origin is allowed and a request
\* with no Origin header is rejected
C10_Witness ==
    /\ Wildcard \notin Range(cors.ORIGIN)
    /\ \E r1, r2 \in 1..Len(reqs) :
          /\ reqs[r1].stage # "cors" /\ reqs[r2].stage # "cors"
          /\ reqs[r1].origin \in Range(cors.ORIGIN) /\ reqs[r1].corsResult.allow
          /\ reqs[r2].origin = Undefined /\ reqs[r2].corsResult.err = CorsError

\* C11: every response of the error middleware carries a non-empty error
\* string and an integer status: the error's own status when it has a
\* non-zero one and 500 otherwise, the error's own error text when it has
\* a non-empty one and 'Internal Server Error' otherwise; the status line
\* of the response is the status of the body
C11_ErrorEnvelope ==
    \A r \in 1..Len(reqs) :
        ByErrorMiddleware(r) =>
            LET err == reqs[r].err
                res == reqs[r].res
                hasStatus == err.status.kind = "number" /\ err.status.n # 0
                hasError == err.error.kind = "string" /\ err.error.chars # <<>>
            IN  /\ res.body.error.kind = "string"
                /\ res.body.error.chars # <<>>
                /\ res.body.status.kind = "number"
                /\ res.body.status.n \in Int
                /\ res.body.status =
                      IF hasStatus THEN err.status ELSE Num(InternalServerError)
                /\ res.body.error =
                      IF hasError THEN err.error ELSE InternalServerErrorText
                /\ res.status = res.body.status

\* one error answered with its own status and error text, another, which
\* has neither attribute, answered with the defaults
C11_Witness ==
    \E r1, r2 \in 1..Len(reqs) :
        /\ ByErrorMiddleware(r1) /\ ByErrorMiddleware(r2)
        /\ reqs[r1].err.status = Num(400)
        /\ reqs[r1].res.status = Num(400)
        /\ reqs[r1].res.body.error = Str(<<"Bad", "Request">>)
        /\ reqs[r2].err.status = Undefined /\ reqs[r2].err.error = Undefined
        /\ reqs[r2].res.status = Num(InternalServerError)
        /\ reqs[r2].res.body.error = InternalServerErrorText

\* the collaborator inits of a start-up in which none fails
InitOrder ==
    IF providerEnabled
      THEN <<"provider:start", "provider:ok", "prisma:start", "prisma:ok">>
      ELSE <<"prisma:start", "prisma:ok">>

InitFailed ==
    /\ hist.inits # <<>>
    /\ hist.inits[Len(hist.inits)] \in {"provider:fail", "prisma:fail"}

\* C12: the provider init (when enabled) and then the Prisma init are
\* called one after the other, each only after the one before it has
\* resolved; no transport is selected before both have resolved; once one
\* of them has failed nothing more of bootstrap() runs: no later init, no
\* transport, no listener, no 'ON' log line, no SIGTERM handler
C12_InitsSequentialAndFatal ==
    /\ Len(hist.inits) <= Len(InitOrder)
    /\ \A i \in 1..Len(hist.inits) :
          \/ hist.inits[i] = InitOrder[i]
          \/ /\ i = Len(hist.inits)
             /\ hist.inits[i] = (IF InitOrder[i] = "provider:ok"
                                   THEN "provider:fail" ELSE "prisma:fail")
             /\ InitOrder[i] \in {"provider:ok", "prisma:ok"}
    /\ (servers # <<>> \/ server # UndefinedRef \/ hist.certFailed)
          => hist.inits = InitOrder
    /\ InitFailed =>
          /\ pc = "aborted"
          /\ servers = <<>> /\ server = UndefinedRef
          /\ httpServer = [TYPE |-> hist.TYPE, PORT |-> hist.PORT]
          /\ ~LogHas({"ON:"})
          /\ sigtermHandlers = 0 /\ ~waLoaded /\ ~unexpectedHook

\* the provider init has failed with the provider enabled, and the start-up
\* has stopped there
C12_Witness ==
    /\ providerEnabled
    /\ hist.inits = <<"provider:start", "provider:fail">>
    /\ pc = "aborted" /\ servers = <<>>

EventManagerWarned == LogHas({"eventManager", "init", "skipped"})

\* C13: an exception of the event manager's init is logged as a warning
\* and start-up goes on as it does when the init returns or there is no
\* event manager: bootstrap() never rejects at the init, a start-up with a
\* listener object and a valid resolved port binds that listener on the
\* resolved port and runs to its end (unless the process is killed), and
\* the only rejection after the init is that of listen() itself
C13_EventManagerBestEffort ==
    /\ [](/\ (emInit = "threw") <=> EventManagerWarned
          /\ hist.abortAt # "eventManager"
          /\ emInit # "none" /\ pc = "aborted" =>
                /\ hist.abortAt = "listen"
                /\ ~(IsObject(server) /\ ValidPort(httpServer.PORT))
          /\ emInit # "none" /\ pc \in Started =>
                /\ IsObject(server)
                /\ servers[server].state # "created"
                /\ servers[server].port = httpServer.PORT)
    /\ \A outcome \in {"absent", "ok", "threw"} :
          (emInit = outcome /\ IsObject(server) /\ ValidPort(httpServer.PORT))
             ~> (\/ ~Alive
                 \/ /\ pc = "done" /\ emInit = outcome
                    /\ servers[server].port = httpServer.PORT)

\* the init threw and the process is serving on the resolved port
C13_Witness ==
    /\ emInit = "threw" /\ EventManagerWarned
    /\ Serving
    /\ servers[server].port = httpServer.PORT

\* C14: no listener is bound before the middleware chain is mounted and
\* both collaborator inits have resolved; when the 'ON' line is in the log
\* the listener has completed its bind; exactly one SIGTERM handler is
\* registered when bootstrap() has returned, and never more than one
C14_StartupOrder ==
    /\ (\E i \in 1..Len(servers) : servers[i].state # "created") =>
          /\ pc # "idle"
          /\ hist.inits = InitOrder
    /\ LogHas({"ON:"}) =>
          /\ IsObject(server)
          /\ servers[server].state \notin {"created", "binding", "failed"}
    /\ sigtermHandlers <= 1
    /\ pc = "done" => sigtermHandlers = 1

\* C15: no request has its response written more than once, and a request
\* that has left the chain has it written exactly once; the 404 envelope
\* is written only for a request that no route answered and that had no
\* error, the error middleware answers only requests that had an error,
\* and a response once written is never changed by a later step
C15_OneWriter ==
    /\ [](\A r \in 1..Len(reqs) :
            /\ reqs[r].writes <= 1
            /\ reqs[r].res.sent <=> reqs[r].writes = 1
            /\ Finished(r) => reqs[r].writes = 1
            /\ (reqs[r].res.sent /\ reqs[r].res.by = "notFound") =>
                  /\ reqs[r].err = Null
                  /\ reqs[r].hook = "none"
            /\ (reqs[r].res.sent /\ reqs[r].res.by = "error") =>
                  reqs[r].err # Null
            /\ reqs[r].stage \in {"notFound", "final"} => reqs[r].err = Null)
    /\ [][\A r \in 1..Len(reqs) :
            reqs[r].res.sent => reqs'[r].res = reqs[r].res]_vars

\* a request answered by the 404 handler, whose next() has been handled,
\* and a request answered by the error middleware
C15_Witness ==
    \E r1, r2 \in 1..Len(reqs) :
        /\ Finished(r1) /\ reqs[r1].res.by = "notFound" /\ reqs[r1].writes = 1
        /\ Finished(r2) /\ reqs[r2].res.by = "error" /\ reqs[r2].writes = 1

\* the configuration the error middleware read names no webhook URL
NoWebhookUrl(webhook) ==
    \/ webhook.EVENTS.kind = "undefined"
    \/ webhook.EVENTS.ERRORS_WEBHOOK.kind = "undefined"
    \/ webhook.EVENTS.ERRORS_WEBHOOK = Str(<<>>)

\* C16: for each request the error middleware handled, no webhook request
\* was sent when the configured URL is unset or empty, and at most one was
\* sent otherwise; a request whose post was rejected has left the chain
\* with that one post
C16_AtMostOnePost ==
    \A r \in 1..Len(reqs) :
        /\ reqs[r].posts <= 1
        /\ reqs[r].hook = "none" => reqs[r].posts = 0
        /\ reqs[r].hook # "none" =>
              /\ NoWebhookUrl(reqs[r].webhook) => reqs[r].posts = 0
              /\ reqs[r].posts = 1 <=>
                    reqs[r].hook \in {"pending", "resolved", "rejected"}
        /\ reqs[r].hook = "rejected" => Finished(r) /\ reqs[r].posts = 1

\* one error whose post was rejected, and one handled with an empty URL
\* configured and nothing sent
C16_Witness ==
    \E r1, r2 \in 1..Len(reqs) :
        /\ reqs[r1].hook = "rejected" /\ reqs[r1].posts = 1 /\ Finished(r1)
        /\ reqs[r2].hook = "skipped" /\ reqs[r2].posts = 0
        /\ reqs[r2].webhook = [EVENTS |-> EventsObj(Str(<<>>))]

\* listen() has been called on a listener
ListenIssued == \E i \in 1..Len(servers) : servers[i].state # "created"

\* C17: a step changes the server configuration only in the certificate
\* fallback, where it sets TYPE to 'http' and nothing else, or in the port
\* resolution, where it sets PORT and nothing else, and only while listen()
\* has not been called; once it has been called, and while the process
\* serves, drains and after it has exited, no step changes TYPE or PORT
C17_ConfigWrites ==
    [][/\ httpServer' # httpServer =>
            /\ ~ListenIssued
            /\ \/ /\ pc = "fallback"
                  /\ httpServer' = [httpServer EXCEPT !.TYPE = "http"]
               \/ /\ pc = "port"
                  /\ httpServer'.TYPE = httpServer.TYPE
       /\ (ListenIssued \/ pc \in Started \/ sigterms > 0 \/ ~Alive) =>
            httpServer' = httpServer]_vars

\* the process has exited after a drain, and the configuration still holds
\* the downgraded kind and the port resolved before listen()
C17_Witness ==
    /\ ~Alive /\ sigterms > 0 /\ pc = "done"
    /\ hist.TYPE = "https" /\ httpServer.TYPE = "http"
    /\ hist.PORT # httpServer.PORT
    /\ IsObject(server) /\ servers[server].port = httpServer.PORT

\* C18: the close callback and the fallback timer each end the process on
\* their own: when the callback has run the process has exited although
\* the timer is still armed, when the timer has ended the process the
\* callback is still waiting; both exit with code 0; and from a state in
\* which the process has exited no step is taken, so it exits at most once
C18_FirstCompletionWins ==
    /\ [](/\ proc.via = "closeCallback" =>
                /\ ~Alive /\ proc.exitCode = 0
                /\ timers # <<>>
                /\ servers[server].state = "closed"
          /\ proc.via = "timer" =>
                /\ ~Alive /\ proc.exitCode = 0
                /\ closeCbs > 0
                /\ servers[server].state # "closed"
          /\ (IsObject(server) /\ servers[server].state = "closed") =>
                ~Alive /\ proc.via = "closeCallback")
    /\ [][~Alive => UNCHANGED vars]_vars

\* the close callback ended the process while the timer had seconds left
C18_Witness ==
    /\ ~Alive /\ proc.via = "closeCallback"
    /\ elapsed > 0
    /\ \A i \in 1..Len(timers) : timers[i] > 0
    /\ timers # <<>>

\* C19: the session monitor is loaded and the unexpected-error handler is
\* installed only after listen() has been called on the selected listener
\* and the SIGTERM handler has been registered, the monitor first; in a
\* start-up that has rejected (at a collaborator init or at listen())
\* neither has happened, nor does it happen afterwards
C19_LateHooks ==
    /\ [](/\ (waLoaded \/ unexpectedHook) =>
                /\ IsObject(server) /\ ListenIssued
                /\ servers[server].state # "created"
                /\ sigtermHandlers = 1
                /\ LogHas({"ON:"})
          /\ unexpectedHook => waLoaded
          /\ pc = "aborted" => ~waLoaded /\ ~unexpectedHook
          /\ pc \notin {"onUnexpectedError", "done"} => ~waLoaded
          /\ pc # "done" => ~unexpectedHook)
    /\ [][pc = "aborted" => pc' = "aborted"]_vars

\* listen() has thrown for want of a listener object, and neither the
\* monitor nor the unexpected-error handler is there
C19_Witness ==
    /\ pc = "aborted" /\ hist.abortAt = "listen"
    /\ ~IsObject(server)
    /\ ~waLoaded /\ ~unexpectedHook

\* the SIGTERM handler has run, or something it does has happened
ShutdownBegun ==
    \/ sigterms > 0
    \/ timers # <<>>
    \/ closeCbs > 0
    \/ \E i \in 1..Len(servers) :
          servers[i].closeCalls > 0 \/ servers[i].state \in {"closing", "closed"}
    \/ proc.via \in {"closeCallback", "timer", "closeThrew"}

\* C20: the SIGTERM handler has run only in a process whose bootstrap() has
\* returned, with a listener object selected and listen() called on it; a
\* SIGTERM before the handler is registered ends the process by the
\* default disposition, with no close of a listener, no timer armed and no
\* shutdown log line
C20_ShutdownOnlyWhenServing ==
    /\ ShutdownBegun =>
          /\ pc = "done"
          /\ sigtermHandlers = 1
          /\ IsObject(server)
          /\ servers[server].state # "created"
    /\ proc.via = "signal" =>
          /\ pc \notin {"initWA", "onUnexpectedError", "done"}
          /\ ~ShutdownBegun
          /\ ~LogHas({"SIGTERM"})

\* a SIGTERM while bootstrap() awaited the Prisma init ended the process,
\* and nothing of the shutdown path has run
C20_Witness ==
    /\ proc.via = "signal" /\ ~Alive
    /\ pc = "awaitPrisma"
    /\ sigterms = 0 /\ timers = <<>> /\ closeCbs = 0

=============================================================================
